---- MODULE Spec2Model ----
(***************************************************************************)
(* Model of data_tamer's custom type support                               *)
(* (include/data_tamer/custom_types.hpp): the compile-time fixed-size      *)
(* deduction GetFixedSize, the CustomSerializerT that caches it, and the   *)
(* TypesRegistry that keeps the serializers behind a recursive mutex.      *)
(* The ChannelsRegistry used by examples/mcap_1m_per_sec.cpp is modelled   *)
(* from its documented contract.                                           *)
(***************************************************************************)
EXTENDS Integers, Sequences, FiniteSets, TLC

\* ------------------------------------------------------------------------
\* Bounds of the model
\* ------------------------------------------------------------------------
\* number of nodes (numeric, vector, array, composite) of a type's shape
MaxNodes == 5
\* largest N of a std::array<E, N>
MaxN == 2
\* largest length given to the vectors of an instance
MaxLen == 2
\* width of size_t in the model (2^SizeBits values)
SizeBits == 16

SizeModulus == 2 ^ SizeBits
Wrap(x) == x % SizeModulus

\* sizeof of the numeric types used as leaves
NumericWidths == {1, 4}

\* ------------------------------------------------------------------------
\* Shapes of types: what TypeDefinition<T>::typeDef and container_info<T>
\* tell the engine about T
\* ------------------------------------------------------------------------
Num(w) == <<"num", w>>
Vec(e) == <<"vec", e>>
Arr(n, e) == <<"arr", n, e>>
Comp(fs) == <<"comp", fs>>

Kind(T) == T[1]

RECURSIVE ShapesOfSize(_)
RECURSIVE FieldSeqs(_)
\* every shape with exactly k nodes
ShapesOfSize(k) ==
  IF k <= 0 THEN {}
  ELSE (IF k = 1 THEN {Num(w) : w \in NumericWidths} ELSE {})
       \cup {Vec(e) : e \in ShapesOfSize(k - 1)}
       \cup {Arr(n, e) : n \in 0..MaxN, e \in ShapesOfSize(k - 1)}
       \cup {Comp(fs) : fs \in FieldSeqs(k - 1)}
\* every field list whose shapes have b nodes in total
FieldSeqs(b) ==
  IF b <= 0 THEN {<<>>}
  ELSE UNION { { <<f>> \o rest : f \in ShapesOfSize(j), rest \in FieldSeqs(b - j) }
               : j \in 1..b }

\* the types a CustomSerializerT can be instantiated with: composites
\* (numeric types and containers are refused by the static_asserts)
CompositeTypes ==
  UNION { {T \in ShapesOfSize(k) : Kind(T) = "comp"} : k \in 1..MaxNodes }

IsNumericType(T) == Kind(T) = "num"
SizeOf(T) == T[2]

\* SerializeMe::container_info<T>
container_info(T) ==
  CASE Kind(T) = "vec" -> [is_container |-> TRUE, size |-> 0, value_type |-> T[2]]
    [] Kind(T) = "arr" -> [is_container |-> TRUE, size |-> T[2], value_type |-> T[3]]
    [] OTHER -> [is_container |-> FALSE, size |-> 1, value_type |-> T]

\* the values an uninitialised size_t local can hold when it is read
Uninit == {0, 1, SizeModulus - 1}

RECURSIVE GetFixedSize(_, _)
RECURSIVE typeDef(_, _)
\* GetFixedSize<T>(is_fixed_size, fixed_size): st holds the two reference
\* parameters on entry, the result is the set of their possible values on
\* return (the array branch reads the uninitialised local obj_size)
GetFixedSize(T, st) ==
  IF IsNumericType(T)
  THEN {[st EXCEPT !.fixed_size = Wrap(@ + SizeOf(T))]}
  ELSE LET info == container_info(T) IN
    IF info.is_container /\ info.size = 0
    THEN {[st EXCEPT !.is_fixed_size = FALSE]}
    ELSE IF info.is_container /\ info.size >= 0
    THEN { [is_fixed_size |-> r.is_fixed_size,
            fixed_size |-> Wrap(st.fixed_size + info.size * r.fixed_size)]
           : r \in UNION { GetFixedSize(info.value_type,
                             [is_fixed_size |-> st.is_fixed_size, fixed_size |-> obj_size])
                           : obj_size \in Uninit } }
    ELSE typeDef(T[2], {st})

\* TypeDefinition<T>().typeDef(func) with the lambda of GetFixedSize: the
\* fields are visited in declaration order, S is the set of possible values
\* of (is_fixed_size, fixed_size) before the next field
typeDef(fields, S) ==
  IF fields = <<>> THEN S
  ELSE typeDef(Tail(fields),
               UNION { IF st.is_fixed_size THEN GetFixedSize(Head(fields), st) ELSE {st}
                       : st \in S })

\* CustomSerializerT<T> constructor without the reset of _fixed_size
Ctor_noReset(T) ==
  { r.fixed_size : r \in GetFixedSize(T, [is_fixed_size |-> TRUE, fixed_size |-> 0]) }

\* CustomSerializerT<T>::CustomSerializerT: the possible values of _fixed_size
Ctor(T) ==
  { IF ~r.is_fixed_size THEN 0 ELSE r.fixed_size
    : r \in GetFixedSize(T, [is_fixed_size |-> TRUE, fixed_size |-> 0]) }

\* CustomSerializerT<T>::isFixedSize
isFixedSize(fixed_size) == fixed_size > 0

RECURSIVE BufferSize(_, _)
RECURSIVE BufferSizeFields(_, _)
\* SerializeMe::BufferSize(obj): the encoded length of an instance of T whose
\* vectors all hold len elements (a vector is a 4 byte count and its elements)
BufferSize(T, len) ==
  CASE Kind(T) = "num" -> SizeOf(T)
    [] Kind(T) = "vec" -> 4 + len * BufferSize(T[2], len)
    [] Kind(T) = "arr" -> T[2] * BufferSize(T[3], len)
    [] OTHER -> BufferSizeFields(T[2], len)
BufferSizeFields(fields, len) ==
  IF fields = <<>> THEN 0
  ELSE BufferSize(Head(fields), len) + BufferSizeFields(Tail(fields), len)

\* serializedSize that walks the instance on every call
serializedSize_always_measured(T, fixed_size, len) ==
  [size |-> BufferSize(T, len), measured |-> TRUE]

\* CustomSerializerT<T>::serializedSize: the value returned, and whether the
\* instance was measured
serializedSize(T, fixed_size, len) ==
  IF fixed_size # 0
  THEN [size |-> fixed_size, measured |-> FALSE]
  ELSE [size |-> BufferSize(T, len), measured |-> TRUE]

\* ------------------------------------------------------------------------
\* The types the application instantiates the registry's templates with
\* ------------------------------------------------------------------------
UserTypes == {"Point", "Pose", "int32"}

\* the shape TypeDefinition<T>::typeDef describes (int32 is a built-in)
Shape(U) ==
  CASE U = "Point" -> Comp(<<Num(4), Num(4)>>)
    [] U = "Pose" -> Comp(<<Comp(<<Num(4), Num(4)>>), Num(4)>>)
    [] OTHER -> Num(4)

\* TypeDefinition<T>().typeName()
typeName(U) == U

\* the composite types of T's own fields: what the construction of T's
\* serializer has to resolve
NestedTypes(U) ==
  IF Kind(Shape(U)) # "comp" THEN {}
  ELSE { M \in UserTypes : /\ Kind(Shape(M)) = "comp"
                           /\ \E i \in 1..Len(Shape(U)[2]) : Shape(U)[2][i] = Shape(M) }

\* the names the application registers types under
TypeNames == { typeName(U) : U \in {V \in UserTypes : Kind(Shape(V)) = "comp"} }

Threads == {"t1", "t2"}
NoThread == "none"

\* calls (top level and nested) the threads make in one run
MaxCalls == 3

\* the sinks and channel names the application uses
Sinks == {"mcap_sink", "sink2", "sink3"}
ChannelNames == {"chan", "other"}
NoChannel == [name |-> "none", sinks |-> {}]

\* an empty CustomSerializer::Ptr
Null == [id |-> 0, T |-> "none", name |-> "none"]

\* ------------------------------------------------------------------------
\* State
\* ------------------------------------------------------------------------
VARIABLES
  T,            \* the type CustomSerializerT is instantiated with
  constructed,  \* the serializer has been constructed
  _fixed_size,  \* CustomSerializerT::_fixed_size
  calls,        \* results of the serializedSize calls made so far, newest last
  _types,       \* TypesRegistry::_types: type name -> serializer
  _mutex,       \* TypesRegistry::_mutex: owning thread and recursion count
  stack,        \* per thread, the registry calls in progress, innermost last
  made,         \* every serializer make_shared has constructed
  returned,     \* every (name, serializer) a call returned
  rejected,     \* the operations whose instantiation the static_assert refused
  ncalls,       \* number of calls started
  _default_sinks, \* ChannelsRegistry: the default sinks registered so far
  _channels,    \* ChannelsRegistry: channel name -> channel
  channel       \* the channel the last getChannel returned

sizeVars == <<T, constructed, _fixed_size, calls>>
regVars == <<_types, _mutex, stack, made, returned, rejected, ncalls>>
chanVars == <<_default_sinks, _channels, channel>>
vars == <<sizeVars, regVars, chanVars>>

\* ------------------------------------------------------------------------
\* CustomSerializerT: construction and measurement of one type
\* ------------------------------------------------------------------------
\* the default member initialiser: size_t _fixed_size = 0
SizeIdle ==
  /\ constructed = FALSE
  /\ _fixed_size = 0
  /\ calls = <<>>

RegIdle ==
  /\ _types = [n \in UserTypes |-> Null]
  /\ _mutex = [owner |-> NoThread, count |-> 0]
  /\ stack = [t \in Threads |-> <<>>]
  /\ made = {}
  /\ returned = {}
  /\ rejected = {}
  /\ ncalls = 0

ChanIdle ==
  /\ _default_sinks = {}
  /\ _channels = [c \in ChannelNames |-> NoChannel]
  /\ channel = NoChannel

SizeInit ==
  /\ T \in CompositeTypes
  /\ SizeIdle
  /\ RegIdle
  /\ ChanIdle

Construct ==
  /\ ~constructed
  /\ constructed' = TRUE
  /\ _fixed_size' \in Ctor(T)
  /\ UNCHANGED <<T, calls, regVars, chanVars>>

\* at most two calls are remembered: the last one and the one before it
CallSerializedSize ==
  /\ constructed
  /\ \E len \in 0..MaxLen :
       LET r == serializedSize(T, _fixed_size, len) IN
       calls' = (IF Len(calls) = 2 THEN Tail(calls) ELSE calls)
                  \o <<[len |-> len, size |-> r.size, measured |-> r.measured]>>
  /\ UNCHANGED <<T, constructed, _fixed_size, regVars, chanVars>>

SizeNext == Construct \/ CallSerializedSize

SizeSpec == SizeInit /\ [][SizeNext]_vars

\* ------------------------------------------------------------------------
\* TypesRegistry
\* ------------------------------------------------------------------------
\* a lock that excludes nobody
CanLock_unguarded(t) == TRUE

\* std::recursive_mutex::lock can proceed only on a free mutex
CanLock_non_recursive(t) == _mutex.owner = NoThread

\* std::recursive_mutex::lock can proceed
CanLock(t) == _mutex.owner = NoThread \/ _mutex.owner = t

\* the static_asserts are missing
staticAssertOK_missing(U) == TRUE

\* static_assert(!IsNumericType<T>())
staticAssertOK(U) == ~IsNumericType(Shape(U))

\* the condition of addType's early return without the flag
skipAddType_never(skip_if_present, count) == FALSE

\* skip_if_present && _types.count(type_name) != 0
skipAddType(skip_if_present, count) == skip_if_present /\ count # 0

Top(t) == stack[t][Len(stack[t])]
SetTop(t, f) == [stack EXCEPT ![t] = [@ EXCEPT ![Len(@)] = f]]
Push(t, f) == [stack EXCEPT ![t] = Append(@, f)]

NewFrame(op, U, name, skip) ==
  [op |-> op, T |-> U, type_name |-> name, skip_if_present |-> skip,
   pc |-> "lock", it |-> Null, serializer |-> Null, todo |-> NestedTypes(U)]

RegInit ==
  /\ T = Comp(<<>>)
  /\ SizeIdle
  /\ RegIdle
  /\ ChanIdle

\* the application instantiates and calls getSerializer<U>()
CallGetSerializer(t) ==
  /\ stack[t] = <<>>
  /\ ncalls < MaxCalls
  /\ \E U \in UserTypes :
       IF staticAssertOK(U)
       THEN /\ stack' = Push(t, NewFrame("getSerializer", U, typeName(U), FALSE))
            /\ ncalls' = ncalls + 1
            /\ UNCHANGED rejected
       ELSE /\ rejected' = rejected \cup {"getSerializer"}
            /\ UNCHANGED <<stack, ncalls>>
  /\ UNCHANGED <<sizeVars, chanVars, _types, _mutex, made, returned>>

\* the application instantiates and calls addType<U>(type_name, skip_if_present)
CallAddType(t) ==
  /\ stack[t] = <<>>
  /\ ncalls < MaxCalls
  /\ \E U \in UserTypes, type_name \in TypeNames, skip \in BOOLEAN :
       IF staticAssertOK(U)
       THEN /\ stack' = Push(t, NewFrame("addType", U, type_name, skip))
            /\ ncalls' = ncalls + 1
            /\ UNCHANGED rejected
       ELSE /\ rejected' = rejected \cup {"addType"}
            /\ UNCHANGED <<stack, ncalls>>
  /\ UNCHANGED <<sizeVars, chanVars, _types, _mutex, made, returned>>

\* std::scoped_lock lk(_mutex)
Lock(t) ==
  /\ stack[t] # <<>>
  /\ Top(t).pc = "lock"
  /\ CanLock(t)
  /\ _mutex' = [owner |-> t, count |-> _mutex.count + 1]
  /\ stack' = SetTop(t, [Top(t) EXCEPT !.pc = IF Top(t).op = "getSerializer" THEN "find" ELSE "check"])
  /\ UNCHANGED <<sizeVars, chanVars, _types, made, returned, rejected, ncalls>>

\* getSerializer: auto it = _types.find(type_name), and the branch on it
Find(t) ==
  /\ stack[t] # <<>>
  /\ Top(t).pc = "find"
  /\ LET it == _types[Top(t).type_name] IN
       stack' = SetTop(t, [Top(t) EXCEPT !.it = it,
                                         !.serializer = it,
                                         !.pc = IF it = Null THEN "construct" ELSE "return"])
  /\ UNCHANGED <<sizeVars, chanVars, _types, _mutex, made, returned, rejected, ncalls>>

\* addType: the early return
Check(t) ==
  /\ stack[t] # <<>>
  /\ Top(t).pc = "check"
  /\ LET f == Top(t)
         it == IF f.skip_if_present THEN _types[f.type_name] ELSE Null
         count == IF it = Null THEN 0 ELSE 1
     IN stack' = SetTop(t, [f EXCEPT !.it = it,
                                     !.pc = IF skipAddType(f.skip_if_present, count)
                                            THEN "return" ELSE "construct"])
  /\ UNCHANGED <<sizeVars, chanVars, _types, _mutex, made, returned, rejected, ncalls>>

\* while the serializer of T is constructed, the resolution of one of T's
\* nested types calls getSerializer on the same thread
NestedGetSerializer(t) ==
  /\ stack[t] # <<>>
  /\ Top(t).pc = "construct"
  /\ ncalls < MaxCalls
  /\ \E M \in Top(t).todo :
       /\ stack' = [stack EXCEPT ![t] =
                      Append([@ EXCEPT ![Len(@)].todo = @ \ {M}],
                             NewFrame("getSerializer", M, typeName(M), FALSE))]
       /\ ncalls' = ncalls + 1
  /\ UNCHANGED <<sizeVars, chanVars, _types, _mutex, made, returned, rejected>>

\* the same through addType
NestedAddType(t) ==
  /\ stack[t] # <<>>
  /\ Top(t).pc = "construct"
  /\ ncalls < MaxCalls
  /\ \E M \in Top(t).todo, skip \in BOOLEAN :
       /\ stack' = [stack EXCEPT ![t] =
                      Append([@ EXCEPT ![Len(@)].todo = @ \ {M}],
                             NewFrame("addType", M, typeName(M), skip))]
       /\ ncalls' = ncalls + 1
  /\ UNCHANGED <<sizeVars, chanVars, _types, _mutex, made, returned, rejected>>

\* serializer = std::make_shared<CustomSerializerT<T>>(type_name);
\* _types[type_name] = serializer
MakeAndStore(t) ==
  /\ stack[t] # <<>>
  /\ Top(t).pc = "construct"
  /\ LET f == Top(t)
         serializer == [id |-> Cardinality(made) + 1, T |-> f.T, name |-> f.type_name]
     IN /\ made' = made \cup {serializer}
        /\ _types' = [_types EXCEPT ![f.type_name] = serializer]
        /\ stack' = SetTop(t, [f EXCEPT !.serializer = serializer, !.pc = "return"])
  /\ UNCHANGED <<sizeVars, chanVars, _mutex, returned, rejected, ncalls>>

\* return: the scoped_lock is released and the caller gets the pointer
Return(t) ==
  /\ stack[t] # <<>>
  /\ Top(t).pc = "return"
  /\ LET f == Top(t) IN
       returned' = returned \cup {[name |-> f.type_name, serializer |-> f.serializer]}
  /\ _mutex' = [owner |-> IF _mutex.count = 1 THEN NoThread ELSE _mutex.owner,
                count |-> _mutex.count - 1]
  /\ stack' = [stack EXCEPT ![t] = SubSeq(@, 1, Len(@) - 1)]
  /\ UNCHANGED <<sizeVars, chanVars, _types, made, rejected, ncalls>>

\* the steps a call takes once it has started
Progress(t) == Lock(t) \/ Find(t) \/ Check(t) \/ MakeAndStore(t) \/ Return(t)

Next ==
  \E t \in Threads :
    \/ CallGetSerializer(t)
    \/ CallAddType(t)
    \/ NestedGetSerializer(t)
    \/ NestedAddType(t)
    \/ Lock(t)
    \/ Find(t)
    \/ Check(t)
    \/ MakeAndStore(t)
    \/ Return(t)

Spec == RegInit /\ [][Next]_vars

\* fair scheduling of the threads and of the mutex
LiveSpec == RegInit /\ [][Next]_vars /\ \A t \in Threads : SF_vars(Progress(t))

\* only getSerializer is called
GetNext ==
  \E t \in Threads :
    \/ CallGetSerializer(t)
    \/ NestedGetSerializer(t)
    \/ Lock(t)
    \/ Find(t)
    \/ MakeAndStore(t)
    \/ Return(t)

GetSpec == RegInit /\ [][GetNext]_vars

\* ------------------------------------------------------------------------
\* ChannelsRegistry
\* ------------------------------------------------------------------------
\* getChannel that attaches the current default sinks on every request
channelFor_reattach(name) == [name |-> name, sinks |-> _default_sinks]

\* getChannel(name): the existing channel, or a new one with the default
\* sinks registered so far
channelFor(name) ==
  IF _channels[name] # NoChannel THEN _channels[name]
  ELSE [name |-> name, sinks |-> _default_sinks]

ChanInit ==
  /\ T = Comp(<<>>)
  /\ SizeIdle
  /\ RegIdle
  /\ ChanIdle

addDefaultSink ==
  /\ \E sink \in Sinks : _default_sinks' = _default_sinks \cup {sink}
  /\ UNCHANGED <<sizeVars, regVars, _channels, channel>>

getChannel ==
  /\ \E name \in ChannelNames :
       /\ _channels' = [_channels EXCEPT ![name] = channelFor(name)]
       /\ channel' = channelFor(name)
  /\ UNCHANGED <<sizeVars, regVars, _default_sinks>>

ChanNext == addDefaultSink \/ getChannel

ChanSpec == ChanInit /\ [][ChanNext]_vars

\* ------------------------------------------------------------------------
\* Properties
\* ------------------------------------------------------------------------
RECURSIVE HasVector(_)
\* T contains a variable-length sequence, at any depth
HasVector(S) ==
  CASE Kind(S) = "num" -> FALSE
    [] Kind(S) = "vec" -> TRUE
    [] Kind(S) = "arr" -> HasVector(S[3])
    [] OTHER -> \E i \in 1..Len(S[2]) : HasVector(S[2][i])

RECURSIVE PackedSize(_)
RECURSIVE PackedSizeFields(_)
\* the sum of the fields' sizes in declaration order, without padding
PackedSize(S) ==
  CASE Kind(S) = "num" -> S[2]
    [] Kind(S) = "arr" -> S[2] * PackedSize(S[3])
    [] Kind(S) = "comp" -> PackedSizeFields(S[2])
    [] OTHER -> 0
PackedSizeFields(fields) ==
  IF fields = <<>> THEN 0 ELSE PackedSize(Head(fields)) + PackedSizeFields(Tail(fields))

\* C1: concurrent getSerializer calls for one name construct one serializer
\* for it, the registry stores it, and every caller is returned that one
C1_OneSerializerForConcurrentCallers ==
  /\ \A n \in UserTypes : Cardinality({s \in made : s.name = n}) <= 1
  /\ \A r \in returned : /\ r.serializer # Null
                         /\ r.serializer \in made
                         /\ r.serializer = _types[r.name]

\* two calls for one name overlap: one thread has constructed and stored
\* the serializer of a name that had no entry, the other waits for the lock
C1_Witness ==
  \E t \in Threads, u \in Threads :
    /\ t # u
    /\ stack[t] # <<>>
    /\ stack[u] # <<>>
    /\ Top(t).pc = "lock"
    /\ Top(u).pc = "return"
    /\ Top(u).type_name = Top(t).type_name
    /\ Top(u).it = Null
    /\ Top(u).serializer # Null
    /\ _types[Top(u).type_name] = Top(u).serializer

\* C2: whatever the operation, the registry entry of a name is never
\* replaced by another instance and every call on the name returns the one
\* instance
C2_OneInstancePerName ==
  [][ /\ \A n \in UserTypes : _types[n] # Null => _types'[n] = _types[n]
      /\ \A r \in returned' : \A q \in returned' :
           r.name = q.name => r.serializer = q.serializer ]_vars

\* C3: for a type without variable-length sequences the cached size is the
\* sum of the widths of its numeric leaves, arrays counting N times their
\* element
C3_FixedSizeIsPackedSum ==
  (constructed /\ ~HasVector(T)) => _fixed_size = PackedSize(T)

\* C4: a type that contains a variable-length sequence anywhere is
\* variable-size: isFixedSize() is false and the cached size is 0
C4_VectorMakesVariableSize ==
  (constructed /\ HasVector(T)) => (~isFixedSize(_fixed_size) /\ _fixed_size = 0)

\* a vector met after a numeric field, inside a nested composite or inside
\* an array
C4_Witness ==
  /\ constructed
  /\ Len(T[2]) = 2
  /\ Kind(T[2][1]) = "num"
  /\ Kind(T[2][2]) \in {"arr", "comp"}
  /\ HasVector(T[2][2])

\* C5: when isFixedSize() is true every serializedSize call returns the
\* cached size without looking at the instance; the instance is measured
\* only when isFixedSize() is false
C5_FixedSizeIsReturnedUnmeasured ==
  \A i \in 1..Len(calls) :
    /\ isFixedSize(_fixed_size) => (calls[i].size = _fixed_size /\ ~calls[i].measured)
    /\ calls[i].measured => ~isFixedSize(_fixed_size)

\* two calls on different instances of a fixed-size type
C5_Witness ==
  /\ Len(calls) = 2
  /\ calls[1].len # calls[2].len
  /\ isFixedSize(_fixed_size)
  /\ calls[1].size = calls[2].size

\* C6: isFixedSize() is true for every type without a variable-length
\* sequence, the types of encoded length zero included
C6_ConstantSizeIsFixedSize ==
  (constructed /\ ~HasVector(T)) => isFixedSize(_fixed_size)

\* C7: no serializer of a numeric type is ever constructed, stored or
\* returned, and a refused request leaves the registry as it was
C7_NumericTypeRejected ==
  /\ \A n \in UserTypes : _types[n] # Null => ~IsNumericType(Shape(_types[n].T))
  /\ \A s \in made : ~IsNumericType(Shape(s.T))
  /\ \A r \in returned : r.serializer # Null => ~IsNumericType(Shape(r.serializer.T))
  /\ \A n \in UserTypes : IsNumericType(Shape(n)) => _types[n] = Null
  /\ \A t \in Threads : \A i \in 1..Len(stack[t]) : ~IsNumericType(Shape(stack[t][i].T))

\* both operations have been refused for a numeric type while the registry
\* holds entries
C7_Witness ==
  /\ rejected = {"getSerializer", "addType"}
  /\ made # {}

\* C8: a channel gets the default sinks registered so far when it is
\* created, and nothing changes an existing channel
C8_DefaultSinksAtCreationOnly ==
  [][ /\ \A c \in ChannelNames :
           /\ (_channels[c] = NoChannel /\ _channels'[c] # NoChannel)
                => _channels'[c].sinks = _default_sinks
           /\ _channels[c] # NoChannel => _channels'[c] = _channels[c]
      /\ channel' # channel => channel' \in {_channels'[c] : c \in ChannelNames} ]_vars

\* a channel created before a default sink was added exists next to one
\* created after, and only the later one has the sink
C8_Witness ==
  \E c1 \in ChannelNames, c2 \in ChannelNames, s \in Sinks :
    /\ _channels[c1] # NoChannel
    /\ _channels[c2] # NoChannel
    /\ s \in _default_sinks
    /\ s \notin _channels[c1].sinks
    /\ s \in _channels[c2].sinks

InsideLock(t) == \E i \in 1..Len(stack[t]) : stack[t][i].pc # "lock"

C10_SkipIfPresent ==
  \A t \in Threads : \A i \in 1..Len(stack[t]) :
    LET f == stack[t][i] IN
    (f.op = "addType" /\ f.skip_if_present /\ f.pc = "return") =>
      IF f.it # Null
      THEN /\ f.serializer = Null
           /\ _types[f.type_name] = f.it
      ELSE /\ f.serializer # Null
           /\ f.serializer \in made
           /\ f.serializer.T = f.T
           /\ _types[f.type_name] = f.serializer

\* addType with skip_if_present is about to return on a registered name
C10_Witness ==
  \E t \in Threads :
    /\ stack[t] # <<>>
    /\ Top(t).op = "addType"
    /\ Top(t).skip_if_present
    /\ Top(t).pc = "return"
    /\ Top(t).it # Null

====
